---- MODULE Spec2Model ----
(***************************************************************************)
(* Greedy concatenation of cuts (lhotse/dataset/cut_transforms/            *)
(* concatenate.py): the transform CutConcatenate.__call__ (ordering and    *)
(* capacity resolution) and the packer concat_cuts (the greedy loop).      *)
(*                                                                         *)
(* Durations, gaps and capacities are integer multiples of one time unit   *)
(* (0.5 s in the worked example of the specification).  Indices are        *)
(* 0-based as in the Python code; element i of a list is cuts[i + 1].      *)
(***************************************************************************)
EXTENDS Integers, Sequences, FiniteSets, TLC

\* ---- bounds of the explored inputs ----
MaxLen == 3
MaxDur == 2
MaxGap == 3
MaxCap == 3

\* Python's None for max_duration and seed.
None == -1

\* The seeds and duration factors explored (None: no seed, 1: the default factor).
Seeds == {None, 0}
DurationFactors == {1, 2}

\* At most one cut of a batch departs from the convention of exactly one
\* supervision per cut; it has none or several.
OtherSupCounts == {0, 2}

VARIABLES
    input,         \* the caller's collection of cuts
    config,        \* gap, duration_factor, max_duration, seed, change_symbol
    entry,         \* "call": CutConcatenate.__call__; "concat_cuts": direct call
    pc,            \* position in the code
    cuts,          \* the working sequence of concat_cuts
    max_duration,  \* concat_cuts' parameter / resolved local
    current_idx,   \* the resume cursor
    idx,           \* the for loop's variable
    stop,          \* the end of the for loop's range, fixed when the loop starts
    can_fit,
    shortest,
    _gap,          \* the effective gap of the last fit test
    result,        \* what the invocation returned or raised
    invocation,    \* 1 or 2: the transform is invoked twice on the same input
    first          \* the result of the first invocation

vars == <<input, config, entry, pc, cuts, max_duration, current_idx, idx, stop,
          can_fit, shortest, _gap, result, invocation, first>>

\* ---- cuts ----

RECURSIVE SumSeq(_)
SumSeq(s) == IF s = <<>> THEN 0 ELSE Head(s) + SumSeq(Tail(s))

\* An input cut: identity i, duration d, n supervisions that start at 0.
MkCut(i, d, n) ==
    [parts |-> <<i>>,
     pads |-> <<>>,
     duration |-> d,
     supervisions |-> [k \in 1..n |-> [cut |-> i, k |-> k, start |-> 0, marks |-> 0]]]

NoCut == [parts |-> <<>>, pads |-> <<>>, duration |-> 0, supervisions |-> <<>>]

\* Cut.pad(duration): trailing silence up to the given duration.
CutPad(cut, d) ==
    IF d <= cut.duration THEN cut
    ELSE [cut EXCEPT !.pads = Append(@, d - cut.duration), !.duration = d]

\* Cut.append(other): other's audio and supervisions follow, shifted by
\* the duration of the receiver.
CutAppend(a, b) ==
    [parts |-> a.parts \o b.parts,
     pads |-> a.pads \o b.pads,
     duration |-> a.duration + b.duration,
     supervisions |-> a.supervisions \o
         [k \in 1..Len(b.supervisions) |->
             [b.supervisions[k] EXCEPT !.start = @ + a.duration]]]

\* fastcopy(cut, supervisions=[fastcopy(sup0, text=sup0.text + change_symbol)])
AddChangeSymbol(cut) ==
    [cut EXCEPT !.supervisions = << [cut.supervisions[1] EXCEPT !.marks = @ + 1] >>]

\* ---- the Orderer ----

RECURSIVE InsertDesc(_, _)
InsertDesc(sorted, c) ==
    IF sorted = <<>> THEN <<c>>
    ELSE IF Head(sorted).duration >= c.duration
         THEN <<Head(sorted)>> \o InsertDesc(Tail(sorted), c)
         ELSE <<c>> \o sorted

\* CutSet.sort_by_duration(ascending=False): stable, longest first.
RECURSIVE SortByDuration(_)
SortByDuration(s) ==
    IF s = <<>> THEN <<>>
    ELSE InsertDesc(SortByDuration(SubSeq(s, 1, Len(s) - 1)), s[Len(s)])

\* One step of the seeded generator.
NextRandom(state) == (5 * state + 3) % 16

Swap(s, i, j) == [s EXCEPT ![i] = s[j], ![j] = s[i]]

\* Fisher-Yates over positions n, n-1, ..., 2, driven by the generator.
RECURSIVE ShuffleFrom(_, _, _)
ShuffleFrom(s, n, state) ==
    IF n <= 1 THEN s
    ELSE ShuffleFrom(Swap(s, n, 1 + (NextRandom(state) % n)), n - 1, NextRandom(state))

\* CutSet.shuffle(random.Random(seed)): a permutation fixed by seed and size.
Shuffle(s, seed) == ShuffleFrom(s, Len(s), seed)

\* ---- the Packer's tests ----

\* A draw that ignores whether change_symbol is set.
DrawGapAlways(gap, change_symbol) == 0..gap

\* line 91: the effective gaps a fit test can draw.
DrawGap(gap, change_symbol) == IF change_symbol THEN 0..gap ELSE {gap}

\* A fit test that forgets the gap.
CanFitNoGap(cut, g, last, cap) == cut.duration + last.duration <= cap

\* A fit test with the comparison inverted.
CanFitInverted(cut, g, last, cap) == cut.duration + g + last.duration >= cap

\* line 92
CanFit(cut, g, last, cap) == cut.duration + g + last.duration <= cap

\* An assertion that only rejects cuts without supervisions.
SupervisionAtLeastOne(cut) == Len(cut.supervisions) >= 1

\* lines 95-97
SupervisionOk(cut) == Len(cut.supervisions) = 1

\* A merge that leaves the absorbed cut in the sequence.
MergeAtKeepLast(s, i, g, change_symbol) ==
    LET cut  == s[i + 1]
        base == IF change_symbol THEN AddChangeSymbol(cut) ELSE cut
        new  == CutAppend(CutPad(base, base.duration + g), s[Len(s)])
    IN  [s EXCEPT ![i + 1] = new]

\* lines 94-108: the sequence after the merge of the last cut into cuts[i].
MergeAt(s, i, g, change_symbol) ==
    LET cut  == s[i + 1]
        base == IF change_symbol THEN AddChangeSymbol(cut) ELSE cut
        new  == CutAppend(CutPad(base, base.duration + g), s[Len(s)])
    IN  SubSeq([s EXCEPT ![i + 1] = new], 1, Len(s) - 1)

\* A default capacity taken from the last cut instead of the first.
ResolveToLast(given, s) == IF given = None THEN s[Len(s)].duration ELSE given

\* line 84
ResolveMaxDuration(given, s) == IF given = None THEN s[1].duration ELSE given

\* lines 52-54: the capacity CutConcatenate passes to concat_cuts.
Capacity(self_max_duration, ordered, duration_factor) ==
    IF self_max_duration \notin {None, 0}
    THEN self_max_duration
    ELSE ordered[1].duration * duration_factor

\* lines 43-47
Order(s, seed) == IF seed = None THEN SortByDuration(s) ELSE Shuffle(s, seed)

\* ---- results ----

NoResult == [kind |-> "none", cuts |-> <<>>]
Returned(s) == [kind |-> "ok", cuts |-> s]
Raised(what) == [kind |-> what, cuts |-> <<>>]

\* ---- inputs ----

CutsOfLen(n) ==
    { [i \in 1..n |-> MkCut(i, d[i], IF i = j THEN c ELSE 1)] :
        d \in [1..n -> 1..MaxDur], j \in 0..n, c \in OtherSupCounts }

\* The worked example: 4.0, 3.5, 2.0, 1.0, 0.5 seconds in units of 0.5 s.
ExampleDurations == <<8, 7, 4, 2, 1>>
Example == [i \in 1..Len(ExampleDurations) |-> MkCut(i, ExampleDurations[i], 1)]

Inputs == UNION { CutsOfLen(n) : n \in 0..MaxLen } \cup {Example}

RegularInputs ==
    { s \in Inputs : \A i \in 1..Len(s) : Len(s[i].supervisions) = 1 }

\* Options that the entry point ignores are left at their defaults.
Configs(e) ==
    { c \in [gap : 0..MaxGap,
             duration_factor : DurationFactors,
             max_duration : {None} \cup (0..MaxCap),
             seed : Seeds,
             change_symbol : BOOLEAN] :
        /\ e = "concat_cuts" => (c.seed = None /\ c.duration_factor = 1)
        /\ (e = "call" /\ c.max_duration # None) => c.duration_factor = 1 }

\* The state in which an invocation starts.
Start ==
    /\ pc' = IF entry = "call" THEN "call" ELSE "concat_cuts"
    /\ cuts' = input
    /\ max_duration' = config.max_duration
    /\ current_idx' = 0
    /\ idx' = 0
    /\ stop' = 0
    /\ can_fit' = FALSE
    /\ shortest' = NoCut
    /\ _gap' = 0
    /\ result' = NoResult

\* Batches with a cut of no or several supervisions are given to concat_cuts
\* directly; the transform as a whole is explored on the other batches.
Init ==
    /\ entry \in {"call", "concat_cuts"}
    /\ input \in IF entry = "call" THEN RegularInputs ELSE Inputs
    /\ config \in Configs(entry)
    /\ pc = IF entry = "call" THEN "call" ELSE "concat_cuts"
    /\ cuts = input
    /\ max_duration = config.max_duration
    /\ current_idx = 0
    /\ idx = 0
    /\ stop = 0
    /\ can_fit = FALSE
    /\ shortest = NoCut
    /\ _gap = 0
    /\ result = NoResult
    /\ invocation = 1
    /\ first = NoResult

\* ---- CutConcatenate.__call__ ----

\* lines 43-56: order the cuts, resolve the capacity, enter concat_cuts.
Call ==
    /\ pc = "call"
    /\ (config.max_duration \notin {None, 0} \/ Len(input) > 0)
    /\ cuts' = Order(input, config.seed)
    /\ max_duration' = Capacity(config.max_duration, cuts', config.duration_factor)
    /\ pc' = "concat_cuts"
    /\ UNCHANGED <<input, config, entry, current_idx, idx, stop, can_fit,
                   shortest, _gap, result, invocation, first>>

\* line 54: cuts[0] of an empty collection raises.
CallRaises ==
    /\ pc = "call"
    /\ config.max_duration \in {None, 0}
    /\ Len(input) = 0
    /\ cuts' = Order(input, config.seed)
    /\ result' = Raised("IndexError")
    /\ pc' = "failed"
    /\ UNCHANGED <<input, config, entry, max_duration, current_idx, idx, stop,
                   can_fit, shortest, _gap, invocation, first>>

\* ---- concat_cuts ----

\* lines 81-83
EarlyReturn ==
    /\ pc = "concat_cuts"
    /\ Len(cuts) <= 1
    /\ result' = Returned(cuts)
    /\ pc' = "done"
    /\ UNCHANGED <<input, config, entry, cuts, max_duration, current_idx, idx,
                   stop, can_fit, shortest, _gap, invocation, first>>

\* lines 86-89: a turn of the while loop starts on the sequence s with the
\* cursor at i; the range of the for loop is fixed here.
While(s, i) ==
    /\ can_fit' = FALSE
    /\ shortest' = s[Len(s)]
    /\ idx' = i
    /\ stop' = Len(s) - 1
    /\ pc' = "for"

\* lines 84-89
Resolve ==
    /\ pc = "concat_cuts"
    /\ Len(cuts) > 1
    /\ max_duration' = ResolveMaxDuration(max_duration, cuts)
    /\ current_idx' = 0
    /\ While(cuts, 0)
    /\ UNCHANGED <<input, config, entry, cuts, _gap, result, invocation, first>>

\* lines 90-93, 110: the candidate does not fit; the cursor moves on.
ScanMiss ==
    /\ pc = "for"
    /\ idx < stop
    /\ \E g \in DrawGap(config.gap, config.change_symbol) :
        /\ ~CanFit(cuts[current_idx + 1], g, shortest, max_duration)
        /\ _gap' = g
    /\ can_fit' = FALSE
    /\ current_idx' = current_idx + 1
    /\ idx' = idx + 1
    /\ UNCHANGED <<input, config, entry, pc, cuts, max_duration, stop, shortest,
                   result, invocation, first>>

\* lines 90-109, 111, 86-89: the candidate fits and absorbs the last cut; the
\* next turn of the while loop starts with the cursor held.
ScanMerge ==
    /\ pc = "for"
    /\ idx < stop
    /\ config.change_symbol => SupervisionOk(cuts[current_idx + 1])
    /\ \E g \in DrawGap(config.gap, config.change_symbol) :
        /\ CanFit(cuts[current_idx + 1], g, shortest, max_duration)
        /\ _gap' = g
        /\ cuts' = MergeAt(cuts, current_idx, g, config.change_symbol)
    /\ While(cuts', current_idx)
    /\ UNCHANGED <<input, config, entry, max_duration, current_idx, result,
                   invocation, first>>

\* lines 90-97: the candidate fits but the assertion fails.
ScanAbort ==
    /\ pc = "for"
    /\ idx < stop
    /\ \E g \in DrawGap(config.gap, config.change_symbol) :
        /\ CanFit(cuts[current_idx + 1], g, shortest, max_duration)
        /\ _gap' = g
    /\ config.change_symbol
    /\ ~SupervisionOk(cuts[current_idx + 1])
    /\ can_fit' = TRUE
    /\ result' = Raised("AssertionError")
    /\ pc' = "failed"
    /\ UNCHANGED <<input, config, entry, cuts, max_duration, current_idx, idx,
                   stop, shortest, invocation, first>>

\* lines 111-113: the range is exhausted without a fit.
Return ==
    /\ pc = "for"
    /\ idx >= stop
    /\ ~can_fit
    /\ result' = Returned(cuts)
    /\ pc' = "done"
    /\ UNCHANGED <<input, config, entry, cuts, max_duration, current_idx, idx,
                   stop, can_fit, shortest, _gap, invocation, first>>

\* The caller invokes the transform again on the same input.
Reinvoke ==
    /\ pc \in {"done", "failed"}
    /\ invocation = 1
    /\ invocation' = 2
    /\ first' = result
    /\ Start
    /\ UNCHANGED <<input, config, entry>>

\* One invocation.
Next ==
    \/ Call
    \/ CallRaises
    \/ EarlyReturn
    \/ Resolve
    \/ ScanMiss
    \/ ScanMerge
    \/ ScanAbort
    \/ Return

Spec == Init /\ [][Next]_vars

\* Two invocations of the transform, one after the other.
InitTwice == Init /\ entry = "call"

NextTwice ==
    \/ Call
    \/ CallRaises
    \/ EarlyReturn
    \/ Resolve
    \/ ScanMiss
    \/ ScanMerge
    \/ ScanAbort
    \/ Return
    \/ Reinvoke

SpecTwice == InitTwice /\ [][NextTwice]_vars

TypeOK ==
    /\ pc \in {"call", "concat_cuts", "for", "done", "failed"}
    /\ invocation \in 1..2
    /\ current_idx \in 0..Len(input)
    /\ idx = current_idx

\* ---- properties ----

Finished == pc \in {"done", "failed"}

\* The while loop has been entered: max_duration is resolved.
Resolved == pc = "for" \/ (Finished /\ shortest # NoCut)

\* The sequence concat_cuts was given.
PackerInput ==
    IF entry = "call"
    THEN (IF config.seed = None THEN SortByDuration(input) ELSE Shuffle(input, config.seed))
    ELSE input

Regular(s) == \A i \in 1..Len(s) : Len(s[i].supervisions) = 1

NonIncreasing(s) == \A i \in 1..(Len(s) - 1) : s[i].duration >= s[i + 1].duration

RECURSIVE Flatten(_)
Flatten(ss) == IF ss = <<>> THEN <<>> ELSE Head(ss) \o Flatten(Tail(ss))

\* The constituents of the cuts of s, in order: identities of input cuts.
AllParts(s) == Flatten([p \in 1..Len(s) |-> s[p].parts])

\* The supervisions of the cuts of s, in order: <<input cut, number>>.
AllSups(s) ==
    Flatten([p \in 1..Len(s) |->
        [q \in 1..Len(s[p].supervisions) |->
            <<s[p].supervisions[q].cut, s[p].supervisions[q].k>>]])

\* How often x occurs in the sequence t.
Count(x, t) == Cardinality({q \in 1..Len(t) : t[q] = x})

TotalSups(s) == SumSeq([p \in 1..Len(s) |-> Len(s[p].supervisions)])

Conserved(s) ==
    LET parts == AllParts(s)
        sups  == AllSups(s)
    IN  /\ Len(parts) = Len(input)
        /\ Len(sups) = TotalSups(input)
        /\ \A i \in 1..Len(input) :
            /\ Count(i, parts) = 1
            /\ \A k \in 1..Len(input[i].supervisions) : Count(<<i, k>>, sups) = 1

\* The sum of the durations of the input cuts that s is made of.
PartsDuration(cut) == SumSeq([q \in 1..Len(cut.parts) |-> input[cut.parts[q]].duration])

Bounded(s) ==
    \A p \in 1..Len(s) :
        /\ s[p].duration = PartsDuration(s[p]) + SumSeq(s[p].pads)
        /\ Len(s[p].parts) > 1 => s[p].duration <= max_duration

\* C1 - Conservation: in every state of concat_cuts, every input cut and
\* every input supervision occurs exactly once, as an unmerged cut or as one
\* constituent of one composite, and nothing else occurs; what concat_cuts
\* returns is the sequence it reached.
Conservation ==
    /\ pc \in {"concat_cuts", "for", "done"} => Conserved(cuts)
    /\ pc = "done" => result = Returned(cuts)

\* Two merges happened and the result was returned.
ConservationWitness ==
    /\ pc = "done"
    /\ Len(result.cuts) + 2 <= Len(input)
    /\ TotalSups(input) > 0

\* C2 - Duration bound: in every state of the loop, the duration of every
\* cut is the sum of its constituents' durations plus the silence inserted,
\* and every composite lasts at most max_duration; what concat_cuts returns
\* is the sequence it reached.
DurationBound ==
    /\ Resolved => Bounded(cuts)
    /\ pc = "done" => result = Returned(cuts)

\* A composite of three cuts with silence inserted was returned.
DurationBoundWitness ==
    /\ pc = "done"
    /\ \E p \in 1..Len(result.cuts) :
        /\ Len(result.cuts[p].parts) >= 3
        /\ Len(result.cuts[p].pads) >= 2

\* C3 - Precondition failure: with change_symbol set, a fit test that succeeds
\* on a candidate whose number of supervisions is not one ends concat_cuts
\* with a failure: the sequence is left as it was and nothing is returned.
PreconditionFailure ==
    [][(/\ pc = "for"
        /\ idx < stop
        /\ config.change_symbol
        /\ Len(cuts[current_idx + 1].supervisions) # 1
        /\ cuts[current_idx + 1].duration + _gap' + shortest.duration <= max_duration)
       => (/\ pc' = "failed"
           /\ cuts' = cuts
           /\ result'.kind = "AssertionError")]_vars

\* The assertion failed on an input cut with no or several supervisions.
PreconditionFailureWitness ==
    /\ pc = "failed"
    /\ result.kind = "AssertionError"
    /\ Len(cuts) = Len(input)
    /\ Len(cuts[current_idx + 1].supervisions) # 1

\* C4 - No spurious failure: if every input cut has exactly one supervision,
\* concat_cuts never ends with the precondition failure.
NoSpuriousFailure ==
    Regular(input) => result.kind # "AssertionError"

\* C5 - Default capacity: with max_duration unset, the capacity that
\* CutConcatenate hands to concat_cuts is duration_factor times the duration
\* of the longest cut of the batch.
DefaultCapacity ==
    (entry = "call" /\ config.max_duration = None /\ pc = "concat_cuts")
        => \E i \in 1..Len(input) :
               /\ \A j \in 1..Len(input) : input[i].duration >= input[j].duration
               /\ max_duration = config.duration_factor * input[i].duration

\* C6 - Determinism: the second invocation on the same input with the same
\* configuration ends as the first one did.
Determinism ==
    (invocation = 2 /\ Finished) => result = first

\* C6 as amended - Determinism when the gap is not drawn at random
\* (change_symbol unset, or gap = 0).
DeterminismFixedGap ==
    (invocation = 2 /\ Finished /\ (~config.change_symbol \/ config.gap = 0))
        => result = first

\* A second invocation with a seed and a positive fixed gap returned a merge.
DeterminismWitness ==
    /\ invocation = 2
    /\ pc = "done"
    /\ ~config.change_symbol
    /\ config.gap > 0
    /\ config.seed # None
    /\ Len(result.cuts) < Len(input)
    /\ result = first

\* C7 - Degenerate input: a collection of 0 or 1 cuts is returned unchanged,
\* without error, by concat_cuts and by the whole transform.
DegenerateInput ==
    (Len(input) <= 1 /\ Finished) => result = Returned(input)

\* The configuration of the worked example: gap 1.0 s, no change_symbol,
\* max_duration left to its default, no seed, duration_factor 1.
IsWorkedExample ==
    /\ input = Example
    /\ config.gap = 2
    /\ ~config.change_symbol
    /\ config.max_duration = None
    /\ config.seed = None
    /\ config.duration_factor = 1

\* C8 - Worked example: nothing fits and the five cuts are returned unchanged.
WorkedExampleUnchanged ==
    (IsWorkedExample /\ pc = "done") => result = Returned(Example)

\* C8 as amended - Worked example: max_duration is 4.0 s; the cut of 2.0 s
\* absorbs the cut of 0.5 s after 1.0 s of silence (3.5 s in all); nothing
\* else fits and four cuts of 4.0, 3.5, 3.5 and 1.0 s are returned.
WorkedExampleMerged ==
    (IsWorkedExample /\ pc = "done")
        => /\ max_duration = 8
           /\ Len(result.cuts) = 4
           /\ [p \in 1..4 |-> result.cuts[p].duration] = <<8, 7, 7, 2>>
           /\ [p \in 1..4 |-> result.cuts[p].parts] = << <<1>>, <<2>>, <<3, 5>>, <<4>> >>
           /\ result.cuts[3].pads = <<2>>

WorkedExampleWitness ==
    /\ IsWorkedExample
    /\ pc = "done"
    /\ Len(result.cuts) = 4

Unchanged ==
    /\ cuts = PackerInput
    /\ pc # "failed"
    /\ pc = "done" => result = Returned(PackerInput)

\* C9 - Oversized gap: if gap > max_duration, no fit test succeeds and
\* concat_cuts returns the sequence it was given.
OversizedGap ==
    (Resolved /\ config.gap > max_duration) => Unchanged

\* C9 as amended - Oversized gap with change_symbol unset.
OversizedFixedGap ==
    (Resolved /\ config.gap > max_duration /\ ~config.change_symbol) => Unchanged

\* The gap alone kept the last cut out of the first one.
OversizedGapWitness ==
    /\ pc = "done"
    /\ Resolved
    /\ ~config.change_symbol
    /\ config.gap > max_duration
    /\ cuts[1].duration + cuts[Len(cuts)].duration <= max_duration

\* C10 - Resume cursor: on a sequence in non-increasing order of duration
\* and with a fixed gap, every cut before the cursor fails the fit test
\* against the current last cut, in every state of the loop; on return the
\* cursor is at the last cut, so no other cut could absorb it.
ResumeCursor ==
    (Resolved /\ pc # "failed" /\ ~config.change_symbol /\ NonIncreasing(PackerInput))
        => /\ \A j \in 0..(current_idx - 1) :
                cuts[j + 1].duration + config.gap + cuts[Len(cuts)].duration
                    > max_duration
           /\ pc = "done" => current_idx = Len(cuts) - 1

\* A cut was skipped, a later one merged, and the result was returned.
ResumeCursorWitness ==
    /\ pc = "done"
    /\ ~config.change_symbol
    /\ NonIncreasing(PackerInput)
    /\ current_idx >= 1
    /\ Len(result.cuts) < Len(input)
    /\ \E p \in 1..Len(input) : input[p].duration # input[1].duration
====
